---- MODULE Spec2Model ----
(***************************************************************************)
(* Model of src/src/dataset.py: the MalwareDataset index arithmetic, the   *)
(* padding collator, the stratified splitter and the loader factory.       *)
(*                                                                         *)
(* Conventions.                                                            *)
(*  - Python lists are TLA+ sequences; a Python index i (0-based, negative *)
(*    indices counted from the end) is translated by PyInRange/PyAt.       *)
(*  - File names are natural numbers ordered by <, standing for strings    *)
(*    ordered lexicographically; a directory is the set of its entries.    *)
(*  - Labels 0.0 and 1.0 are the integers 0 and 1.                         *)
(*  - A fraction is the record [kind |-> "f", num, den]; an integer        *)
(*    argument is [kind |-> "i", val].  The code holds the fraction as    *)
(*    the double nearest to num/den; float_ceil_mul computes the ceiling   *)
(*    of the double product with an integer as IEEE 754 rounds it.         *)
(*  - sklearn.model_selection.train_test_split and torch's DataLoader are  *)
(*    libraries the code calls; they are modelled by their behaviour in    *)
(*    scikit-learn >= 0.21 and torch >= 1.x as called at the mapped lines. *)
(*  - train_test_split shuffles with numpy's global generator.  The        *)
(*    generator is the variable rng: the orderings it hands out, in call   *)
(*    order, and how many of them were handed out.  Its state is an input  *)
(*    of the program, drawn by Init.                                       *)
(***************************************************************************)
EXTENDS Integers, Sequences, FiniteSets, TLC

\* ------------------------------------------------------------- bounds

\* Largest number of entries of a directory.
MaxFiles == 4
\* Largest number of entries of a directory handed to make_loaders.
MaxLoaderFiles == 3
\* make_loaders is started with every ordering the generator can hand out
\* for arrays of up to MaxLoaderShuffle entries.
MaxLoaderShuffle == 2
\* Denominator of the val/test fractions that are tried: k/Den, 0 <= k < Den.
Den == 4
\* Size of the large directories make_idx is tried on besides the small ones.
BigFiles == 100
\* __getitem__ is tried on every index in -MaxIndex .. MaxIndex.
MaxIndex == 10
\* Largest batch handed to collate_fn.
MaxBatch == 2
\* Largest batch_size handed to make_loaders (0 is tried as well).
MaxBatchSize == 2

\* ---------------------------------------------------------- constants

\* collate_fn's fixed row width and pad symbol.
COLLATE_MAX_LEN == 4096
COLLATE_PAD == 256

VARIABLES
    fs,         \* the file system: directory -> [exists, files]
    dataset,    \* the MalwareDataset under test (SpecDataset, SpecSplit)
    op,         \* the operation that ran last ("init" before any)
    arg,        \* its arguments
    ret,        \* what it returned or raised
    listed,     \* the directories os.listdir was called on, in call order
    nsplit,     \* number of train_test_split calls made
    rng         \* numpy's global generator: [draws, used]

vars == <<fs, dataset, op, arg, ret, listed, nsplit, rng>>

\* ------------------------------------------------------ Python helpers

None == [status |-> "None"]

\* `x = value; return Body(x)`: value is computed once.
Let(value, Body(_)) == CHOOSE r \in {Body(x) : x \in {value}} : TRUE

\* A generator that will hand out the orderings of draws, none used yet.
Generator(draws) == [draws |-> draws, used |-> 0]

Range(s) == {s[k] : k \in 1..Len(s)}

Min(S) == CHOOSE x \in S : \A y \in S : x <= y

\* sorted(iterable) for a collection of distinct names.
RECURSIVE sorted(_)
sorted(S) == IF S = {} THEN <<>> ELSE <<Min(S)>> \o sorted(S \ {Min(S)})

\* range(a, b) as a list.
PyRange(a, b) == [k \in 1..(IF b > a THEN b - a ELSE 0) |-> a + k - 1]

\* list[i] raises IndexError unless -len <= i < len.
PyInRange(s, i) == -Len(s) <= i /\ i < Len(s)
PyAt(s, i) == IF i >= 0 THEN s[i + 1] ELSE s[Len(s) + i + 1]

\* seq[:n] for 0 <= n.
Take(s, n) == SubSeq(s, 1, IF n < Len(s) THEN n ELSE Len(s))

\* math.ceil(a / b) for a >= 0, b > 0.
CeilDiv(a, b) == (a + b - 1) \div b

\* ----------------------------------------------------- the file system

\* The two directories make_loaders names itself.
TESTING_BENIGN_DIR == "/home/kali/deep-malware-detection/raw/test/benign"
TESTING_MALWARE_DIR == "/home/kali/deep-malware-detection/raw/test/malware"

Dirs == {"benign", "malware", TESTING_BENIGN_DIR, TESTING_MALWARE_DIR}

Absent == [exists |-> FALSE, files |-> {}]
Dir(S) == [exists |-> TRUE, files |-> S]

\* The pickled sample stored in file `name` of directory `dir`: a short
\* byte sequence that differs from file to file.
FileContent(dir, name) ==
    [k \in 1..name |-> (IF dir = "benign" THEN 16 ELSE 32) + name + k]

\* ----------------------------------------------------- MalwareDataset

\* MalwareDataset.__init__
MalwareDataset(f, benign_dir, malware_dir) ==
    [benign_dir    |-> benign_dir,
     malware_dir   |-> malware_dir,
     benign_files  |-> sorted(f[benign_dir].files),
     malware_files |-> sorted(f[malware_dir].files)]

\* MalwareDataset.__len__
len(ds) == Len(ds.benign_files) + Len(ds.malware_files)

Loaded(dir, name, label) ==
    [status |-> "ok", dir |-> dir, file |-> name,
     sample |-> FileContent(dir, name), label |-> label]

IndexError == [status |-> "IndexError"]

getitem_no_offset(ds, index) ==
    IF PyInRange(ds.benign_files, index)
    THEN Loaded(ds.benign_dir, PyAt(ds.benign_files, index), 0)
    ELSE IF PyInRange(ds.malware_files, index)
         THEN Loaded(ds.malware_dir, PyAt(ds.malware_files, index), 1)
         ELSE IndexError

\* MalwareDataset.__getitem__: the benign list is indexed first and the
\* malware list only when that raises IndexError; an IndexError of the
\* malware list propagates.
getitem(ds, index) ==
    IF PyInRange(ds.benign_files, index)
    THEN Loaded(ds.benign_dir, PyAt(ds.benign_files, index), 0)
    ELSE LET j == index - Len(ds.benign_files) IN
         IF PyInRange(ds.malware_files, j)
         THEN Loaded(ds.malware_dir, PyAt(ds.malware_files, j), 1)
         ELSE IndexError

\* ------------------------------------------------ SpecDataset: get, len

Names == 1..MaxFiles

InitDataset ==
    /\ \E b \in SUBSET Names, m \in SUBSET Names :
          fs = [d \in Dirs |-> IF d = "benign" THEN Dir(b)
                               ELSE IF d = "malware" THEN Dir(m) ELSE Absent]
    /\ dataset = MalwareDataset(fs, "benign", "malware")
    /\ op = "init"
    /\ arg = None
    /\ ret = None
    /\ listed = <<"benign", "malware">>
    /\ nsplit = 0
    /\ rng = Generator(<<>>)

GetItem ==
    /\ op = "init"
    /\ \E index \in -MaxIndex..MaxIndex :
          /\ arg' = [index |-> index]
          /\ ret' = getitem(dataset, index)
    /\ op' = "getitem"
    /\ UNCHANGED <<fs, dataset, listed, nsplit, rng>>

LenCall ==
    /\ op = "init"
    /\ arg' = None
    /\ ret' = [status |-> "ok", value |-> len(dataset)]
    /\ op' = "len"
    /\ UNCHANGED <<fs, dataset, listed, nsplit, rng>>

NextDataset == GetItem \/ LenCall

SpecDataset == InitDataset /\ [][NextDataset]_vars

NumBenign == Len(dataset.benign_files)
NumMalware == Len(dataset.malware_files)

\* C1: len() is B+M; get(i) for 0 <= i < B reads benign_files[i] with label
\* 0.0, and for B <= i < B+M reads malware_files[i-B] with label 1.0.
C1_UnionIndexing ==
    /\ op = "len" => ret = [status |-> "ok", value |-> NumBenign + NumMalware]
    /\ (op = "getitem" /\ 0 <= arg.index /\ arg.index < NumBenign) =>
          ret = Loaded("benign", dataset.benign_files[arg.index + 1], 0)
    /\ (op = "getitem" /\ NumBenign <= arg.index
           /\ arg.index < NumBenign + NumMalware) =>
          ret = Loaded("malware",
                       dataset.malware_files[arg.index - NumBenign + 1], 1)

C1_Witness ==
    /\ op = "getitem"
    /\ NumBenign = 2
    /\ NumMalware >= 2
    /\ arg.index = NumBenign + 1
    /\ ret.status = "ok"
    /\ ret.label = 1

\* C2: get(index) raises IndexError for every index outside [0, len()),
\* negative indices included.
C2_OutOfRangeRaises ==
    (op = "getitem" /\ (arg.index < 0 \/ arg.index >= NumBenign + NumMalware))
        => ret = IndexError

\* What the code does keep of C2: an index at or past len() raises.
C2_PastEndRaises ==
    (op = "getitem" /\ arg.index >= NumBenign + NumMalware) => ret = IndexError
\* ------------------------------------------------------------ Collator

\* tensor.size(0)
size0(t) == Len(t)

\* sequences[0].new_full((batch_size, max_len), padding_value)
new_full(batch_size, max_len, padding_value) ==
    [i \in 1..batch_size |-> [k \in 1..max_len |-> padding_value]]

\* One row of pad_sequence's loop: out_tensor[i, :length] = tensor when
\* max_len > length, else out_tensor[i, :max_len] = tensor[:max_len].
pad_row(row, tensor, max_len) ==
    IF max_len > size0(tensor)
    THEN [k \in 1..Len(row) |-> IF k <= size0(tensor) THEN tensor[k] ELSE row[k]]
    ELSE [k \in 1..Len(row) |-> IF k <= max_len THEN Take(tensor, max_len)[k]
                                ELSE row[k]]

pad_sequence_batch_max(sequences, max_len, padding_value) ==
    IF Len(sequences) = 0 THEN IndexError
    ELSE LET width == CHOOSE w \in {size0(sequences[i]) : i \in 1..Len(sequences)} :
                          \A i \in 1..Len(sequences) : size0(sequences[i]) <= w
             blank == new_full(Len(sequences), width, padding_value)
         IN [status |-> "ok",
             value  |-> [i \in 1..Len(sequences) |->
                            pad_row(blank[i], sequences[i], width)]]

\* pad_sequence with max_len given (collate_fn always gives it).  An empty
\* list fails at sequences[0].
pad_sequence(sequences, max_len, padding_value) ==
    IF Len(sequences) = 0 THEN IndexError
    ELSE LET blank == new_full(Len(sequences), max_len, padding_value)
         IN [status |-> "ok",
             value  |-> [i \in 1..Len(sequences) |->
                            pad_row(blank[i], sequences[i], max_len)]]

collate_fn_reversed_labels(batch) ==
    LET xs == pad_sequence([i \in 1..Len(batch) |-> batch[i][1]],
                           COLLATE_MAX_LEN, COLLATE_PAD)
        ys == [i \in 1..Len(batch) |-> batch[Len(batch) + 1 - i][2]]
    IN IF xs.status # "ok" THEN xs
       ELSE [status |-> "ok", xs |-> xs.value, ys |-> ys]

\* collate_fn: x[0] of every pair padded to 4096 with 256, x[1] collected.
collate_fn(batch) ==
    LET xs == pad_sequence([i \in 1..Len(batch) |-> batch[i][1]],
                           COLLATE_MAX_LEN, COLLATE_PAD)
        ys == [i \in 1..Len(batch) |-> batch[i][2]]
    IN IF xs.status # "ok" THEN xs
       ELSE [status |-> "ok", xs |-> xs.value, ys |-> ys]

\* ------------------------------------------- SpecCollate: collate_fn

\* Samples of the lengths around the row width; the bytes of a sample are
\* fixed by its length and a stride, so equal lengths can differ in content.
ByteSample(length, stride) == [k \in 1..length |-> (k * stride) % 256]

SampleLengths ==
    {0, 10, COLLATE_MAX_LEN - 1, COLLATE_MAX_LEN, COLLATE_MAX_LEN + 904}

LabeledSamples ==
    {<<ByteSample(n, 3), 0>> : n \in SampleLengths}
        \cup {<<ByteSample(n, 7), 1>> : n \in SampleLengths}

Batches == UNION {[1..n -> LabeledSamples] : n \in 0..MaxBatch}

InitCollate ==
    /\ fs = [d \in Dirs |-> Absent]
    /\ dataset = None
    /\ op = "init"
    /\ \E batch \in Batches : arg = [batch |-> batch]
    /\ ret = None
    /\ listed = <<>>
    /\ nsplit = 0
    /\ rng = Generator(<<>>)

Collate ==
    /\ op = "init"
    /\ ret' = collate_fn(arg.batch)
    /\ op' = "collate_fn"
    /\ UNCHANGED <<fs, dataset, arg, listed, nsplit, rng>>

NextCollate == Collate

SpecCollate == InitCollate /\ [][NextCollate]_vars

\* C7: every row of a collated non-empty batch is COLLATE_MAX_LEN wide; a
\* shorter sample is followed by pad symbols only, a sample at least that
\* long is cut to its first COLLATE_MAX_LEN elements.
C7_RowPolicy ==
    (op = "collate_fn" /\ Len(arg.batch) > 0) =>
        /\ ret.status = "ok"
        /\ \A i \in 1..Len(arg.batch) :
              LET s == arg.batch[i][1]
                  row == ret.xs[i]
              IN /\ Len(row) = 4096
                 /\ Len(s) < 4096 =>
                       row = s \o [k \in 1..(4096 - Len(s)) |-> 256]
                 /\ Len(s) >= 4096 => row = SubSeq(s, 1, 4096)

C7_Witness ==
    /\ op = "collate_fn"
    /\ Len(arg.batch) = 2
    /\ Len(arg.batch[1][1]) = 10
    /\ Len(arg.batch[2][1]) = 5000
    /\ ret.status = "ok"
    /\ ret.xs[1][11] = 256
    /\ ret.xs[2][4096] = arg.batch[2][1][4096]

\* C8: the label vector has one entry per sample, in input order, and row k
\* is the padded or cut k-th sample.
C8_RowsAndLabelsAligned ==
    (op = "collate_fn" /\ ret.status = "ok") =>
        /\ Len(ret.ys) = Len(arg.batch)
        /\ Len(ret.xs) = Len(arg.batch)
        /\ \A k \in 1..Len(arg.batch) :
              /\ ret.ys[k] = arg.batch[k][2]
              /\ LET s == arg.batch[k][1]
                     n == IF Len(s) < Len(ret.xs[k]) THEN Len(s) ELSE Len(ret.xs[k])
                 IN SubSeq(ret.xs[k], 1, n) = SubSeq(s, 1, n)

C8_Witness ==
    /\ op = "collate_fn"
    /\ ret.status = "ok"
    /\ Len(arg.batch) = 2
    /\ arg.batch[1][2] = 1
    /\ arg.batch[2][2] = 0
    /\ ret.ys = <<1, 0>>
    /\ Len(arg.batch[1][1]) = 10
    /\ Len(arg.batch[2][1]) = 4096
\* ------------------------------------------------------------ Splitter

Frac(num, den) == [kind |-> "f", num |-> num, den |-> den]
IntArg(val) == [kind |-> "i", val |-> val]

ValueError(line, calls) ==
    [status |-> "ValueError", line |-> line, calls |-> calls]

\* 2^e and 2^e mod d, for e >= 0.
RECURSIVE Pow2(_)
Pow2(e) == IF e = 0 THEN 1 ELSE 2 * Pow2(e - 1)

RECURSIVE Pow2Mod(_, _)
Pow2Mod(e, d) == IF e = 0 THEN 1 % d ELSE (2 * Pow2Mod(e - 1, d)) % d

\* floor(log2(i)) for an integer i >= 1, and -floor(log2(k/d)) for 0 < k < d.
RECURSIVE FloorLog2(_)
FloorLog2(i) == IF i < 2 THEN 0 ELSE 1 + FloorLog2(i \div 2)

RECURSIVE NegExponent(_, _)
NegExponent(k, d) == IF 2 * k >= d THEN 1 ELSE 1 + NegExponent(2 * k, d)

\* ceil(t * n) as the code computes it, t the double nearest to k/d with
\* 0 < k < d and n >= 0 an integer.  The double t is m / 2^s with
\* s = 52 + NegExponent(k, d) and m = k*2^s/d rounded to nearest; r is the
\* remainder of k*2^s by d, so t lies above k/d by (d - r)/(d * 2^s) when
\* 2r > d.  The product t*n is rounded to the nearest double once; when
\* k*n/d is an integer I >= 1, the rounded product lies above I exactly
\* when t*n - I exceeds half the spacing 2^(FloorLog2(I) - 52) of the
\* doubles above I, and the ceiling is then I + 1.  When k*n/d is no
\* integer it is at least 1/d away from one and the rounding cannot cross.
float_ceil_mul(k, d, n) ==
    IF (k * n) % d # 0 \/ k * n = 0 THEN CeilDiv(k * n, d)
    ELSE LET I == (k * n) \div d
             j == NegExponent(k, d)
             r == (k * Pow2Mod(52 + j, d)) % d
         IN IF 2 * r > d /\ (d - r) * n > d * Pow2(FloorLog2(I) + j - 1)
            THEN I + 1
            ELSE I

\* sklearn's check of test_size and of the resulting sizes (train_size is
\* None at both call sites): test_size must be a float in (0, 1) or an
\* integer in [1, n_samples); n_test = ceil(test_size * n_samples) for a
\* float; n_train = n_samples - n_test must not be 0.
validate_shuffle_split(n_samples, test_size) ==
    IF \/ test_size.kind = "i"
          /\ (test_size.val >= n_samples \/ test_size.val <= 0)
       \/ test_size.kind = "f"
          /\ (test_size.num <= 0 \/ test_size.num >= test_size.den)
    THEN [status |-> "ValueError"]
    ELSE LET n_test == IF test_size.kind = "f"
                       THEN float_ceil_mul(test_size.num, test_size.den,
                                           n_samples)
                       ELSE test_size.val
             n_train == n_samples - n_test
         IN IF n_train = 0 THEN [status |-> "ValueError"]
            ELSE [status |-> "ok", n_train |-> n_train, n_test |-> n_test]

\* rng.permutation(n): the generator hands out its next ordering of
\* 0 .. n-1 and moves on.
permutation(gen, n) ==
    [value |-> gen.draws[gen.used + 1],
     gen   |-> [gen EXCEPT !.used = @ + 1]]

\* _safe_indexing(list, indices): [list[i] for i in indices]
safe_indexing(arr, indices) ==
    [k \in 1..Len(indices) |-> arr[indices[k] + 1]]

\* train_test_split(arr, test_size=..., shuffle=...) and the generator it
\* leaves behind.  Shuffled, the test part is the first n_test entries of a
\* random permutation and the train part the n_train after them;
\* unshuffled, the train part is the first n_train entries and the test
\* part the rest.  The sizes are checked before the generator is used.
train_test_split(arr, test_size, shuffle, gen) ==
    LET sizes == validate_shuffle_split(Len(arr), test_size) IN
    IF sizes.status # "ok" THEN [status |-> "ValueError", gen |-> gen]
    ELSE IF shuffle
    THEN LET p == permutation(gen, Len(arr)) IN
         [status |-> "ok",
          train  |-> safe_indexing(arr,
                       SubSeq(p.value, sizes.n_test + 1,
                              sizes.n_test + sizes.n_train)),
          test   |-> safe_indexing(arr, SubSeq(p.value, 1, sizes.n_test)),
          gen    |-> p.gen]
    ELSE [status |-> "ok",
          train  |-> SubSeq(arr, 1, sizes.n_train),
          test   |-> SubSeq(arr, sizes.n_train + 1,
                            sizes.n_train + sizes.n_test),
          gen    |-> gen]

\* train_val_test_split: test is split off first, then val off the rest.
\* `calls` counts the train_test_split calls made; `out` is what is
\* returned or raised and `gen` the generator afterwards.
train_val_test_split(idx, val_size, test_size, shuffle, gen) ==
    Let(train_test_split(idx, test_size, shuffle, gen), LAMBDA first :
        IF first.status # "ok"
        THEN [out |-> ValueError(72, 1), gen |-> first.gen]
        ELSE Let(train_test_split(first.train, val_size, shuffle, first.gen),
                 LAMBDA second :
                    IF second.status # "ok"
                    THEN [out |-> ValueError(73, 2), gen |-> second.gen]
                    ELSE [out |-> [status |-> "ok", calls |-> 2,
                                   train |-> second.train,
                                   val |-> second.test,
                                   test |-> first.test],
                          gen |-> second.gen]))

\* make_idx: the benign range and the malware range are split one after the
\* other (shuffle at its default, True) and the parts concatenated.
make_idx(ds, val_size, test_size, gen) ==
    LET num_benign == Len(ds.benign_files)
        num_malware == Len(ds.malware_files)
        benign_idx == PyRange(0, num_benign)
        malware_idx == PyRange(num_benign, num_benign + num_malware)
    IN Let(train_val_test_split(benign_idx, val_size, test_size, TRUE, gen),
           LAMBDA b :
              IF b.out.status # "ok" THEN b
              ELSE Let(train_val_test_split(malware_idx, val_size, test_size,
                                            TRUE, b.gen),
                       LAMBDA m :
                          IF m.out.status # "ok"
                          THEN [out |-> [m.out EXCEPT
                                           !.calls = b.out.calls + m.out.calls],
                                gen |-> m.gen]
                          ELSE [out |-> [status |-> "ok",
                                         calls  |-> b.out.calls + m.out.calls,
                                         train  |-> b.out.train \o m.out.train,
                                         val    |-> b.out.val \o m.out.val,
                                         test   |-> b.out.test \o m.out.test],
                                gen |-> m.gen]))

\* --------------------------------------------------- SpecSplit: make_idx

\* The fractions tried: k/Den, and the decimals 0.2 and 0.07.
Fractions == {Frac(k, Den) : k \in 0..(Den - 1)} \cup {Frac(1, 5), Frac(7, 100)}

\* The sizes (B, M) of the two directories make_idx is tried on.
SplitSizes ==
    ((0..MaxFiles) \X (0..MaxFiles)) \cup {<<BigFiles, BigFiles>>}

\* A directory of n entries.
DirOf(n) == Dir(1..n)

\* The orderings of 0 .. n-1.
Orderings(n) ==
    {p \in [1..n -> 0..(n - 1)] : \A i, j \in 1..n : p[i] = p[j] => i = j}

\* Evens upwards, then odds downwards: 0, 2, 4, ..., 5, 3, 1.
Interleaved(n) ==
    [i \in 1..n |-> IF 2 * (i - 1) < n THEN 2 * (i - 1) ELSE 2 * (n - i) + 1]

\* The orderings of 0 .. n-1 the generator is started with: each of them up
\* to `most` entries; of the longer ones the identity, the reversal and
\* the interleaving.
TriedOrderings(n, most) ==
    IF n <= most THEN Orderings(n)
    ELSE {[i \in 1..n |-> i - 1], [i \in 1..n |-> n - i], Interleaved(n)}

\* The orderings train_val_test_split asks the generator for on a range of
\* n entries: one of n entries, then one of the entries left after the test
\* part, each asked for only when the sizes pass.
SplitDraws(n, val_size, test_size, most) ==
    LET first == validate_shuffle_split(n, test_size) IN
    IF first.status # "ok" THEN {<<>>}
    ELSE LET second == validate_shuffle_split(first.n_train, val_size) IN
         IF second.status # "ok"
         THEN {<<p>> : p \in TriedOrderings(n, most)}
         ELSE {<<p, q>> : p \in TriedOrderings(n, most),
                          q \in TriedOrderings(first.n_train, most)}

\* The generator states make_idx is started in on B and M files: the draws
\* for the benign range followed, when that split returns, by the draws
\* for the malware range.
IdxDraws(B, M, val_size, test_size, most) ==
    UNION {{b \o m : m \in IF Len(b) = 2
                           THEN SplitDraws(M, val_size, test_size, most)
                           ELSE {<<>>}}
             : b \in SplitDraws(B, val_size, test_size, most)}

InitSplit ==
    /\ \E bm \in SplitSizes :
          fs = [d \in Dirs |-> IF d = "benign" THEN DirOf(bm[1])
                               ELSE IF d = "malware" THEN DirOf(bm[2])
                               ELSE Absent]
    /\ dataset = MalwareDataset(fs, "benign", "malware")
    /\ op = "init"
    /\ \E v \in Fractions, t \in Fractions :
          arg = [val_size |-> v, test_size |-> t]
    /\ ret = None
    /\ listed = <<"benign", "malware">>
    /\ nsplit = 0
    /\ \E draws \in IdxDraws(Len(dataset.benign_files),
                             Len(dataset.malware_files),
                             arg.val_size, arg.test_size, MaxFiles) :
          rng = Generator(draws)

MakeIdx ==
    /\ op = "init"
    /\ \E o \in {make_idx(dataset, arg.val_size, arg.test_size, rng)} :
          /\ ret' = o.out
          /\ nsplit' = o.out.calls
          /\ rng' = o.gen
    /\ op' = "make_idx"
    /\ UNCHANGED <<fs, dataset, arg, listed>>

NextSplit == MakeIdx

SpecSplit == InitSplit /\ [][NextSplit]_vars

\* v + t < 1 for the fractions of arg.
ValidFractions ==
    arg.val_size.num * arg.test_size.den + arg.test_size.num * arg.val_size.den
        < arg.val_size.den * arg.test_size.den

IsPartition(train, val, test, n) ==
    /\ Len(train) + Len(val) + Len(test) = n
    /\ Range(train) \cap Range(val) = {}
    /\ Range(train) \cap Range(test) = {}
    /\ Range(val) \cap Range(test) = {}
    /\ Range(train) \cup Range(val) \cup Range(test) = 0..(n - 1)

\* C3: for any v, t in [0,1) with v+t < 1 and any B, M, make_idx returns
\* three index lists whose lengths add up to B+M, that are pairwise
\* disjoint and whose union is [0, B+M).
C3_SplitIsPartition ==
    (op = "make_idx" /\ ValidFractions) =>
        /\ ret.status = "ok"
        /\ IsPartition(ret.train, ret.val, ret.test, NumBenign + NumMalware)

\* What the code keeps of C3: whenever make_idx returns, the three lists
\* partition [0, B+M).
C3_ReturnedSplitIsPartition ==
    (op = "make_idx" /\ ret.status = "ok") =>
        IsPartition(ret.train, ret.val, ret.test, NumBenign + NumMalware)

CountBelow(s, b) == Cardinality({k \in 1..Len(s) : s[k] < b})

\* C4: the two label ranges are split independently with the same
\* fractions: when t*B and t*M are integers, test_idx holds exactly t*B
\* indices below B and exactly t*M indices at or above B; for B = M = 100
\* and t = 0.2 the two counts are 20 and 20.
C4_Stratified ==
    (/\ op = "make_idx"
     /\ ret.status = "ok"
     /\ (arg.test_size.num * NumBenign) % arg.test_size.den = 0
     /\ (arg.test_size.num * NumMalware) % arg.test_size.den = 0) =>
        /\ CountBelow(ret.test, NumBenign)
              = (arg.test_size.num * NumBenign) \div arg.test_size.den
        /\ Len(ret.test) - CountBelow(ret.test, NumBenign)
              = (arg.test_size.num * NumMalware) \div arg.test_size.den

\* What the code keeps of C4: the claim's example.  make_idx on 100 benign
\* and 100 malware files with t = 0.2 puts 20 indices of each range in
\* test_idx.
C4_NamedExample ==
    (/\ op = "make_idx"
     /\ ret.status = "ok"
     /\ NumBenign = 100
     /\ NumMalware = 100
     /\ arg.test_size = Frac(1, 5)) =>
        /\ CountBelow(ret.test, NumBenign) = 20
        /\ Len(ret.test) = 40

\* The example is reached: make_idx returns on it.
C4_NamedExampleReached ==
    /\ op = "make_idx"
    /\ ret.status = "ok"
    /\ NumBenign = 100
    /\ NumMalware = 100
    /\ arg.test_size = Frac(1, 5)
    /\ arg.val_size = Frac(1, 4)

\* C9: for valid v, t make_idx does not fail on a label range of size 0 or
\* 1; with 1 benign and 0 malware files the single index lands in exactly
\* one of the three lists, and an empty range contributes nothing.
C9_SmallRangesDoNotFail ==
    (/\ op = "make_idx"
     /\ ValidFractions
     /\ arg.val_size.num > 0
     /\ arg.test_size.num > 0
     /\ (NumBenign <= 1 \/ NumMalware <= 1)) =>
        /\ ret.status = "ok"
        /\ IsPartition(ret.train, ret.val, ret.test, NumBenign + NumMalware)
\* ------------------------------------------------------- LoaderFactory

\* MalwareDataset(benign_dir, malware_dir) with the os.listdir calls it
\* makes: a directory that does not exist raises FileNotFoundError.
construct(f, benign_dir, malware_dir) ==
    IF ~f[benign_dir].exists
    THEN [status |-> "FileNotFoundError", listed |-> <<benign_dir>>]
    ELSE IF ~f[malware_dir].exists
    THEN [status |-> "FileNotFoundError", listed |-> <<benign_dir, malware_dir>>]
    ELSE [status |-> "ok", listed |-> <<benign_dir, malware_dir>>,
          value  |-> MalwareDataset(f, benign_dir, malware_dir)]

\* torch.utils.data.Subset(dataset, indices): an index view, no copy.
Subset(ds, indices) == [dataset |-> ds, indices |-> indices]

\* make_loader: DataLoader(dataset, batch_size, collate_fn, shuffle); the
\* DataLoader rejects a batch_size that is not positive.
make_loader(ds, batch_size, shuffle) ==
    IF batch_size <= 0 THEN [status |-> "ValueError"]
    ELSE [status |-> "ok",
          value  |-> [dataset |-> ds, batch_size |-> batch_size,
                      collate_fn |-> "collate_fn", shuffle |-> shuffle]]

Raised(status, line, listed_, nsplit_, gen) ==
    [result |-> [status |-> status, line |-> line],
     listed |-> listed_, nsplit |-> nsplit_, gen |-> gen]

\* Lines 113-118 of make_loaders, after the train and test loaders were
\* built: the second dataset at the fixed paths, its make_idx(testing, 1,
\* 0), and the validation loader over Subset(testing, val_idx).
make_loaders_tail(f, batch_size, val_idx, train_loader, test_loader, listed_, nsplit_, gen) ==
    Let(construct(f, TESTING_BENIGN_DIR, TESTING_MALWARE_DIR), LAMBDA testing :
        IF testing.status # "ok"
        THEN Raised(testing.status, 113, listed_ \o testing.listed, nsplit_,
                    gen)
        ELSE Let(make_idx(testing.value, IntArg(1), IntArg(0), gen), LAMBDA o1 :
            IF o1.out.status # "ok"
            THEN Raised(o1.out.status, 114, listed_ \o testing.listed,
                        nsplit_ + o1.out.calls, o1.gen)
            ELSE LET val_dataset == Subset(testing.value, val_idx)
                     val_loader == make_loader(val_dataset, batch_size, FALSE)
                 IN IF val_loader.status # "ok"
                    THEN Raised(val_loader.status, 116,
                                listed_ \o testing.listed,
                                nsplit_ + o1.out.calls, o1.gen)
                    ELSE [result |-> [status |-> "ok",
                                      train_loader |-> train_loader,
                                      val_loader   |-> val_loader.value,
                                      test_loader  |-> test_loader],
                          listed |-> listed_ \o testing.listed,
                          nsplit |-> nsplit_ + o1.out.calls,
                          gen    |-> o1.gen]))

\* Lines 103-118 of make_loaders, reached when the fractions pass.
make_loaders_body(f, benign_dir, malware_dir, batch_size, val_size, test_size, gen) ==
    Let(construct(f, benign_dir, malware_dir), LAMBDA d :
        IF d.status # "ok" THEN Raised(d.status, 103, d.listed, 0, gen)
        ELSE Let(make_idx(d.value, val_size, test_size, gen), LAMBDA o :
            IF o.out.status # "ok"
            THEN Raised(o.out.status, 104, d.listed, o.out.calls, o.gen)
            ELSE LET train_dataset == Subset(d.value, o.out.train)
                     test_dataset == Subset(d.value, o.out.test)
                     train_loader == make_loader(train_dataset, batch_size, TRUE)
                     test_loader == make_loader(test_dataset, batch_size, FALSE)
                 IN IF train_loader.status # "ok"
                    THEN Raised(train_loader.status, 108, d.listed,
                                o.out.calls, o.gen)
                    ELSE IF test_loader.status # "ok"
                    THEN Raised(test_loader.status, 110, d.listed,
                                o.out.calls, o.gen)
                    ELSE make_loaders_tail(f, batch_size, o.out.val,
                                           train_loader.value,
                                           test_loader.value,
                                           d.listed, o.out.calls, o.gen)))

make_loaders_strict_guard(f, benign_dir, malware_dir, batch_size, val_size, test_size, gen) ==
    IF val_size.num * test_size.den + test_size.num * val_size.den
          > val_size.den * test_size.den
    THEN Raised("ValueError", 100, <<>>, 0, gen)
    ELSE make_loaders_body(f, benign_dir, malware_dir, batch_size,
                           val_size, test_size, gen)

\* make_loaders: what it returns or raises, with the os.listdir calls and
\* the number of train_test_split calls made on the way and the generator
\* it leaves behind.  The sum of the fractions is checked before anything
\* else.
make_loaders(f, benign_dir, malware_dir, batch_size, val_size, test_size, gen) ==
    IF val_size.num * test_size.den + test_size.num * val_size.den
          >= val_size.den * test_size.den
    THEN Raised("ValueError", 100, <<>>, 0, gen)
    ELSE make_loaders_body(f, benign_dir, malware_dir, batch_size,
                           val_size, test_size, gen)

\* ---------------------------------------------- SpecLoaders: make_loaders

\* The directories at the fixed paths: missing, empty or full.
TestingDirs == {Absent, DirOf(0), DirOf(MaxLoaderFiles)}

InitLoaders ==
    /\ \E b \in 0..MaxLoaderFiles, m \in 0..MaxLoaderFiles, h \in TestingDirs :
          fs = [d \in Dirs |-> IF d = "benign" THEN DirOf(b)
                               ELSE IF d = "malware" THEN DirOf(m) ELSE h]
    /\ dataset = None
    /\ op = "init"
    /\ \E v \in Fractions, t \in Fractions, bs \in 0..MaxBatchSize :
          arg = [benign_dir |-> "benign", malware_dir |-> "malware",
                 batch_size |-> bs, val_size |-> v, test_size |-> t]
    /\ ret = None
    /\ listed = <<>>
    /\ nsplit = 0
    /\ \E draws \in IdxDraws(Cardinality(fs["benign"].files),
                             Cardinality(fs["malware"].files),
                             arg.val_size, arg.test_size, MaxLoaderShuffle) :
          rng = Generator(draws)

MakeLoaders ==
    /\ op = "init"
    /\ \E o \in {make_loaders(fs, arg.benign_dir, arg.malware_dir,
                              arg.batch_size, arg.val_size, arg.test_size,
                              rng)} :
          /\ ret' = o.result
          /\ listed' = o.listed
          /\ nsplit' = o.nsplit
          /\ rng' = o.gen
    /\ op' = "make_loaders"
    /\ UNCHANGED <<fs, dataset, arg>>

NextLoaders == MakeLoaders

SpecLoaders == InitLoaders /\ [][NextLoaders]_vars

\* The primary dataset make_loaders builds from its two directories.
Primary == MalwareDataset(fs, arg.benign_dir, arg.malware_dir)

\* The split sizes are valid: make_idx returns on the primary dataset,
\* the generator started as it was before the call.
SplitSizesValid ==
    make_idx(Primary, arg.val_size, arg.test_size,
             Generator(rng.draws)).out.status = "ok"

TestingDirsExist ==
    fs[TESTING_BENIGN_DIR].exists /\ fs[TESTING_MALWARE_DIR].exists

\* C5: with val_fraction + test_fraction >= 1 make_loaders raises
\* ValueError before any directory is listed and before any split is
\* computed, and returns no loader.
C5_EagerConfigError ==
    (op = "make_loaders" /\ ~ValidFractions) =>
        /\ ret = [status |-> "ValueError", line |-> 100]
        /\ listed = <<>>
        /\ nsplit = 0

C5_Witness ==
    /\ op = "make_loaders"
    /\ arg.val_size = Frac(2, 4)
    /\ arg.test_size = Frac(2, 4)
    /\ arg.batch_size = 2
    /\ Cardinality(fs["benign"].files) = 3
    /\ Cardinality(fs["malware"].files) = 3
    /\ TestingDirsExist
    /\ ret.status = "ValueError"

\* C6: with val_fraction + test_fraction < 1 and batch_size, directories
\* and split sizes valid, make_loaders raises no ValueError at any step and
\* returns the train, val and test batch sources.
C6_ValidConfigReturnsLoaders ==
    (/\ op = "make_loaders"
     /\ ValidFractions
     /\ arg.batch_size > 0
     /\ TestingDirsExist
     /\ SplitSizesValid) =>
        /\ ret.status # "ValueError"
        /\ ret.status = "ok"

\* C10: each returned batch source is an index view over the primary
\* dataset its indices were computed from: all three reference that
\* dataset, hold indices in [0, len()) and cover pairwise disjoint samples.
C10_SourcesViewPrimaryDataset ==
    (/\ op = "make_loaders"
     /\ ValidFractions
     /\ arg.batch_size > 0
     /\ TestingDirsExist
     /\ SplitSizesValid) =>
        /\ ret.status = "ok"
        /\ \A l \in {ret.train_loader, ret.val_loader, ret.test_loader} :
              /\ l.dataset.dataset = Primary
              /\ Range(l.dataset.indices) \subseteq 0..(len(Primary) - 1)
        /\ Range(ret.train_loader.dataset.indices)
              \cap Range(ret.val_loader.dataset.indices) = {}
        /\ Range(ret.train_loader.dataset.indices)
              \cap Range(ret.test_loader.dataset.indices) = {}
        /\ Range(ret.val_loader.dataset.indices)
              \cap Range(ret.test_loader.dataset.indices) = {}
====
